---- MODULE Spec2Model ----
(***************************************************************************)
(* WHODataManager (PythonExercises/VisualizeWHOData/VisualizeWHOData.py):  *)
(* the cache file on disk, the one-time download, the JSON load into       *)
(* memory and the attribute filter over the loaded entries.                *)
(*                                                                         *)
(* File contents and HTTP bodies are sequences of tokens (the bytes);      *)
(* json.load is the operator Parse over them.  A Python exception is the   *)
(* name of its class in the field "exc" of an outcome.                     *)
(***************************************************************************)
EXTENDS Integers, Sequences, FiniteSets, TLC

VARIABLES
    disk,         \* the file at self.filepath: [exists, bytes]
    dirExists,    \* whether self.data_dir exists
    _data,        \* self._data of the most recently constructed manager
    status,       \* how the most recent constructor call ended
    response,     \* what requests.get produced in the most recent download
    loadedBytes,  \* the bytes json.load read for the current _data
    fetchCount,   \* number of requests.get calls made so far
    readCount,    \* number of times the cache file was opened for reading
    nConstructs,  \* number of WHODataManager(...) calls made so far
    lastOp,       \* the operation that produced this state
    query,        \* arguments of the most recent filter call
    outcome       \* what the most recent filter call returned or raised

vars == <<disk, dirExists, _data, status, response, loadedBytes, fetchCount,
          readCount, nConstructs, lastOp, query, outcome>>

-----------------------------------------------------------------------------
(* Bounds *)

MaxRecords == 2       \* longest 'value' list in a file or a response body
MaxConstructs == 2    \* constructor calls in one behaviour

-----------------------------------------------------------------------------
(* Python values *)

\* Python's None: an unset argument, a JSON null, the default of dict.get
None == "<None>"

\* bool(x) of an Optional[str] argument, as `if spatial_dim:` evaluates it
Truthy(x) == x # None /\ x # ""

\* e.get(k): the entry's value, or None when the entry has no key k
Get(e, k) == IF k \in DOMAIN e THEN e[k] ELSE None

-----------------------------------------------------------------------------
(* Entries of the dataset: flat mappings that may lack keys *)

RecordOf ==
    [ r1 |-> [SpatialDim |-> "GUY", TimeDimensionValue |-> "2001", Dim1 |-> "SEX_BTSX"],
      r2 |-> [SpatialDim |-> "USA", TimeDimensionValue |-> "2001", Dim1 |-> "SEX_BTSX"],
      r3 |-> [TimeDimensionValue |-> "2001", Dim1 |-> "SEX_BTSX"],
      r4 |-> [SpatialDim |-> "GUY", TimeDimensionValue |-> None] ]

RecordTokens == DOMAIN RecordOf

\* the token an entry is written as
TokenOf(e) == CHOOSE t \in RecordTokens : RecordOf[t] = e

-----------------------------------------------------------------------------
(* Parsed JSON documents *)

EmptyMembers == [k \in {} |-> <<>>]

JNull == [tag |-> "null", num |-> 0, items |-> <<>>, members |-> EmptyMembers]
JNum(n) == [tag |-> "num", num |-> n, items |-> <<>>, members |-> EmptyMembers]
JArr(s) == [tag |-> "arr", num |-> 0, items |-> s, members |-> EmptyMembers]
JObj(m) == [tag |-> "obj", num |-> 0, items |-> <<>>, members |-> m]

\* json.load raised (JSONDecodeError)
ParseError == [tag |-> "error", num |-> 0, items |-> <<>>, members |-> EmptyMembers]

\* no manager object exists
NoData == [tag |-> "unset", num |-> 0, items |-> <<>>, members |-> EmptyMembers]

Digits == ("0" :> 0) @@ ("2" :> 2) @@ ("4" :> 4)
KeyTokens == {"\"value\"", "\"count\""}
KeyOf(t) == IF t = "\"value\"" THEN "value" ELSE "count"
KeyToken(k) == IF k = "value" THEN "\"value\"" ELSE "\"count\""

RECURSIVE NumberOf(_)
NumberOf(b) ==
    IF b = <<>> THEN 0
    ELSE 10 * NumberOf(SubSeq(b, 1, Len(b) - 1)) + Digits[b[Len(b)]]

\* the entries between "[" and "]": tokens of entries separated by ","
IsRecordList(b) ==
    \/ b = <<>>
    \/ /\ Len(b) % 2 = 1
       /\ \A i \in 1..Len(b) :
            IF i % 2 = 1 THEN b[i] \in RecordTokens ELSE b[i] = ","

RecordList(b) == [i \in 1..((Len(b) + 1) \div 2) |-> RecordOf[b[2 * i - 1]]]

\* json.load(f) on the bytes b
Parse(b) ==
    IF b = <<"null">> THEN JNull
    ELSE IF Len(b) >= 1 /\ \A i \in 1..Len(b) : b[i] \in DOMAIN Digits
        THEN JNum(NumberOf(b))
    ELSE IF b = <<"[", "]">> THEN JArr(<<>>)
    ELSE IF Len(b) = 3 /\ b[1] = "[" /\ b[2] \in KeyTokens /\ b[3] = "]"
        THEN JArr(<<KeyOf(b[2])>>)
    ELSE IF b = <<"{", "}">> THEN JObj(EmptyMembers)
    ELSE IF /\ Len(b) >= 6
            /\ b[1] = "{" /\ b[2] \in KeyTokens /\ b[3] = ":" /\ b[4] = "["
            /\ b[Len(b) - 1] = "]" /\ b[Len(b)] = "}"
            /\ IsRecordList(SubSeq(b, 5, Len(b) - 2))
        THEN JObj(KeyOf(b[2]) :> RecordList(SubSeq(b, 5, Len(b) - 2)))
    ELSE ParseError

RECURSIVE Join(_)
Join(recs) ==
    IF recs = <<>> THEN <<>>
    ELSE IF Len(recs) = 1 THEN <<TokenOf(recs[1])>>
    ELSE <<TokenOf(recs[1]), ",">> \o Join(Tail(recs))

\* the bytes of a document that holds the list recs under the key k
ObjectBytes(k, recs) == <<"{", KeyToken(k), ":", "[">> \o Join(recs) \o <<"]", "}">>

RECURSIVE SeqsUpTo(_, _)
SeqsUpTo(S, n) ==
    IF n = 0 THEN {<<>>}
    ELSE LET shorter == SeqsUpTo(S, n - 1)
         IN  shorter \cup {Append(s, x) : s \in {t \in shorter : Len(t) = n - 1}, x \in S}

Datasets == SeqsUpTo({RecordOf[t] : t \in RecordTokens}, MaxRecords)

\* contents a cache file or a response body may have
Bodies ==
    {ObjectBytes("value", recs) : recs \in Datasets}
    \cup { ObjectBytes("count", <<>>), <<"{", "}">>, <<"null">>, <<"4", "2">>,
           <<"[", "]">>, <<"[", "\"value\"", "]">>, <<"<html>">> }

Absent == [exists |-> FALSE, bytes |-> <<>>]
File(b) == [exists |-> TRUE, bytes |-> b]

NoResponse == [kind |-> "none", body |-> <<>>]
NoQuery == [spatial_dim |-> None, time_dimension_value |-> None, dim1 |-> None]
NoOutcome == [exc |-> "none", result |-> <<>>, printed |-> <<>>]

-----------------------------------------------------------------------------
(* Inputs from outside the program *)

\* what requests.get / raise_for_status can produce
ServerBodies ==
    { ObjectBytes("value", <<RecordOf["r1"], RecordOf["r2"]>>), <<"4", "2">>, <<"<html>">> }

Responses ==
    {[kind |-> "ok", body |-> b] : b \in ServerBodies}
    \cup {[kind |-> "http_error", body |-> <<>>], [kind |-> "net_error", body |-> <<>>]}

\* how creating the directory and writing len bytes can end: all written,
\* mkdir raising (only when the directory is not there yet), or the write
\* raising after `written` bytes reached the file that open(..., 'wb') created
IOs(dir, len) ==
    {[kind |-> "ok", written |-> len]}
    \cup (IF dir THEN {} ELSE {[kind |-> "mkdir_error", written |-> 0]})
    \cup {[kind |-> "write_error", written |-> n] : n \in 0..(len - 1)}

\* contents another process may leave in the cache file
EnvBodies == {<<"<html>">>, ObjectBytes("value", <<RecordOf["r2"]>>)}

Queries ==
    [spatial_dim : {None, "", "GUY", "FRA"},
     time_dimension_value : {None, "", "2001"},
     dim1 : {None, "SEX_BTSX"}]

-----------------------------------------------------------------------------
(* WHODataManager *)

\* the existence test repaired to also replace a file that does not parse
NeedsDownload_OrCorrupt(d) == ~d.exists \/ Parse(d.bytes) = ParseError

\* the existence test dropped: every construction downloads
NeedsDownload_Always(d) == TRUE

\* `if not self.filepath.exists():`
NeedsDownload(d) == ~d.exists

\* download_data with a retry: a failed GET is sent again
download_data_Retry(d, dir, resp, io) ==
    IF resp.kind # "ok"
        THEN [disk |-> d, dirExists |-> dir, raised |-> TRUE, gets |-> 2]
    ELSE IF io.kind = "mkdir_error"
        THEN [disk |-> d, dirExists |-> dir, raised |-> TRUE, gets |-> 1]
    ELSE IF io.kind = "write_error"
        THEN [disk |-> File(SubSeq(resp.body, 1, io.written)),
              dirExists |-> TRUE, raised |-> TRUE, gets |-> 1]
    ELSE [disk |-> File(resp.body), dirExists |-> TRUE, raised |-> FALSE, gets |-> 1]

\* download_data writing the body without its last byte
download_data_ShortWrite(d, dir, resp, io) ==
    IF resp.kind # "ok"
        THEN [disk |-> d, dirExists |-> dir, raised |-> TRUE, gets |-> 1]
    ELSE IF io.kind = "mkdir_error"
        THEN [disk |-> d, dirExists |-> dir, raised |-> TRUE, gets |-> 1]
    ELSE IF io.kind = "write_error"
        THEN [disk |-> File(SubSeq(resp.body, 1, io.written)),
              dirExists |-> TRUE, raised |-> TRUE, gets |-> 1]
    ELSE [disk |-> File(SubSeq(resp.body, 1, Len(resp.body) - 1)),
          dirExists |-> TRUE, raised |-> FALSE, gets |-> 1]

\* download_data: one GET, raise_for_status, mkdir, write the body; every
\* exception is re-raised as Exception("Failed to download data: ...")
download_data(d, dir, resp, io) ==
    IF resp.kind # "ok"
        THEN [disk |-> d, dirExists |-> dir, raised |-> TRUE, gets |-> 1]
    ELSE IF io.kind = "mkdir_error"
        THEN [disk |-> d, dirExists |-> dir, raised |-> TRUE, gets |-> 1]
    ELSE IF io.kind = "write_error"
        THEN [disk |-> File(SubSeq(resp.body, 1, io.written)),
              dirExists |-> TRUE, raised |-> TRUE, gets |-> 1]
    ELSE [disk |-> File(resp.body), dirExists |-> TRUE, raised |-> FALSE, gets |-> 1]

\* _initialize_data: download when the file is missing, then open and json.load
_initialize_data(d, dir, resp, io) ==
    LET need == NeedsDownload(d)
        dl == IF need THEN download_data(d, dir, resp, io)
              ELSE [disk |-> d, dirExists |-> dir, raised |-> FALSE, gets |-> 0]
        parsed == Parse(dl.disk.bytes)
    IN  [ disk |-> dl.disk,
          dirExists |-> dl.dirExists,
          gets |-> dl.gets,
          read |-> ~dl.raised,
          status |-> IF dl.raised THEN "DownloadFailed"
                     ELSE IF parsed = ParseError THEN "JSONDecodeError"
                     ELSE "ok",
          data |-> IF dl.raised \/ parsed = ParseError THEN NoData ELSE parsed ]

\* `not self._data`
Falsy(d) ==
    \/ d.tag \in {"null", "unset"}
    \/ d.tag = "num" /\ d.num = 0
    \/ d.tag = "arr" /\ d.items = <<>>
    \/ d.tag = "obj" /\ DOMAIN d.members = {}

\* `'value' in self._data` for a dict or a list
HasValue(d) ==
    \/ d.tag = "obj" /\ "value" \in DOMAIN d.members
    \/ d.tag = "arr" /\ \E i \in DOMAIN d.items : d.items[i] = "value"

Raise(e) == [exc |-> e, result |-> <<>>, printed |-> <<>>]
Return(r) == [exc |-> "none", result |-> r, printed |-> <<>>]

\* a narrowing pass without its `if wanted:` guard
Narrow_Always(entries, key, wanted) ==
    SelectSeq(entries, LAMBDA e : Get(e, key) = wanted)

\* a narrowing pass that lets an entry without the key through
Narrow_MissingMatches(entries, key, wanted) ==
    IF Truthy(wanted)
        THEN SelectSeq(entries, LAMBDA e : key \notin DOMAIN e \/ e[key] = wanted)
        ELSE entries

\* one narrowing pass: [e for e in entries if e.get(key) == wanted], skipped
\* when `if wanted:` is false
Narrow(entries, key, wanted) ==
    IF Truthy(wanted)
        THEN SelectSeq(entries, LAMBDA e : Get(e, key) = wanted)
        ELSE entries

\* filter_data without its third narrowing pass
filter_data_NoDim1(d, q) ==
    IF Falsy(d) THEN Raise("ValueError")
    ELSE IF d.tag = "num" THEN Raise("TypeError")
    ELSE IF ~HasValue(d) THEN Raise("ValueError")
    ELSE IF d.tag # "obj" THEN Raise("TypeError")
    ELSE Return(Narrow(Narrow(d.members["value"],
                              "SpatialDim", q.spatial_dim),
                       "TimeDimensionValue", q.time_dimension_value))

\* filter_data: the guard of line 69, self._data['value'], three passes
filter_data(d, q) ==
    IF Falsy(d) THEN Raise("ValueError")
    ELSE IF d.tag = "num" THEN Raise("TypeError")
    ELSE IF ~HasValue(d) THEN Raise("ValueError")
    ELSE IF d.tag # "obj" THEN Raise("TypeError")
    ELSE Return(Narrow(Narrow(Narrow(d.members["value"],
                                     "SpatialDim", q.spatial_dim),
                              "TimeDimensionValue", q.time_dimension_value),
                       "Dim1", q.dim1))

\* get_filtered_data: filter_data, then print the two counts
get_filtered_data(d, q) ==
    LET r == filter_data(d, q)
    IN  IF r.exc # "none" THEN r
        ELSE [r EXCEPT !.printed = <<Len(r.result), Len(d.members["value"])>>]

-----------------------------------------------------------------------------
(* State machine *)

Init ==
    /\ disk \in {Absent} \cup {File(b) : b \in Bodies}
    /\ dirExists \in BOOLEAN
    /\ disk.exists => dirExists
    /\ _data = NoData
    /\ status = "none"
    /\ response = NoResponse
    /\ loadedBytes = <<>>
    /\ fetchCount = 0
    /\ readCount = 0
    /\ nConstructs = 0
    /\ lastOp = "start"
    /\ query = NoQuery
    /\ outcome = NoOutcome

\* WHODataManager(data_dir, filename)
Construct ==
    /\ nConstructs < MaxConstructs
    /\ \E resp \in (IF NeedsDownload(disk) THEN Responses ELSE {NoResponse}) :
       \E io \in (IF resp.kind = "ok" THEN IOs(dirExists, Len(resp.body))
                                     ELSE {[kind |-> "ok", written |-> 0]}) :
         LET r == _initialize_data(disk, dirExists, resp, io)
         IN  /\ disk' = r.disk
             /\ dirExists' = r.dirExists
             /\ _data' = r.data
             /\ status' = r.status
             /\ response' = IF r.gets > 0 THEN resp ELSE NoResponse
             /\ loadedBytes' = IF r.status = "ok" THEN r.disk.bytes ELSE <<>>
             /\ fetchCount' = fetchCount + r.gets
             /\ readCount' = IF r.read THEN readCount + 1 ELSE readCount
    /\ nConstructs' = nConstructs + 1
    /\ lastOp' = "construct"
    /\ query' = NoQuery
    /\ outcome' = NoOutcome

\* filter_data storing the narrowed list back into self._data['value']
FilterData_InPlace ==
    /\ status = "ok"
    /\ \E q \in Queries :
         /\ query' = q
         /\ outcome' = filter_data(_data, q)
         /\ _data' = IF outcome'.exc = "none"
                        THEN [_data EXCEPT !.members = ("value" :> outcome'.result) @@ @]
                        ELSE _data
    /\ lastOp' = "filter"
    /\ UNCHANGED <<disk, dirExists, status, response, loadedBytes,
                   fetchCount, readCount, nConstructs>>

\* manager.filter_data(...)
FilterData ==
    /\ status = "ok"
    /\ \E q \in Queries :
         /\ query' = q
         /\ outcome' = filter_data(_data, q)
    /\ lastOp' = "filter"
    /\ UNCHANGED <<disk, dirExists, _data, status, response, loadedBytes,
                   fetchCount, readCount, nConstructs>>

\* manager.get_filtered_data(...)
GetFilteredData ==
    /\ status = "ok"
    /\ \E q \in Queries :
         /\ query' = q
         /\ outcome' = get_filtered_data(_data, q)
    /\ lastOp' = "filter"
    /\ UNCHANGED <<disk, dirExists, _data, status, response, loadedBytes,
                   fetchCount, readCount, nConstructs>>

\* the cache file is removed behind the manager's back
EnvDeleteFile ==
    /\ nConstructs >= 1
    /\ disk.exists
    /\ disk' = Absent
    /\ lastOp' = "env"
    /\ UNCHANGED <<dirExists, _data, status, response, loadedBytes, fetchCount,
                   readCount, nConstructs, query, outcome>>

\* the cache file is rewritten behind the manager's back
EnvOverwriteFile ==
    /\ nConstructs >= 1
    /\ dirExists
    /\ \E b \in EnvBodies : disk' = File(b)
    /\ disk' # disk
    /\ lastOp' = "env"
    /\ UNCHANGED <<dirExists, _data, status, response, loadedBytes, fetchCount,
                   readCount, nConstructs, query, outcome>>

Next ==
    \/ Construct
    \/ FilterData
    \/ GetFilteredData
    \/ EnvDeleteFile
    \/ EnvOverwriteFile

Spec == Init /\ [][Next]_vars

-----------------------------------------------------------------------------
(* Vocabulary of the properties *)

\* the step is a constructor call
IsConstruct == nConstructs' = nConstructs + 1

\* the parsed content is an object with the 'value' list of entries
HasRecords(d) == d.tag = "obj" /\ "value" \in DOMAIN d.members

\* the state follows a filter call on a manager that holds a list of entries
Filtered == lastOp = "filter" /\ status = "ok" /\ HasRecords(_data)

Args(q) ==
    << <<"SpatialDim", q.spatial_dim>>,
       <<"TimeDimensionValue", q.time_dimension_value>>,
       <<"Dim1", q.dim1>> >>

\* entry e equals the wanted value on every argument that is not None
MatchesSupplied(e, q) ==
    \A i \in 1..3 : Args(q)[i][2] # None => Get(e, Args(q)[i][1]) = Args(q)[i][2]

\* entry e equals the wanted value on every argument that is neither None nor ""
MatchesNonEmpty(e, q) ==
    \A i \in 1..3 : Truthy(Args(q)[i][2]) => Get(e, Args(q)[i][1]) = Args(q)[i][2]

\* a cache file that parses to an object
ValidCache(d) == d.exists /\ Parse(d.bytes).tag = "obj"

\* len(self._data.get('value', [])) of a parsed object
RecordCount(d) == IF "value" \in DOMAIN d.members THEN Len(d.members["value"]) ELSE 0

-----------------------------------------------------------------------------
(* Filtering *)

\* C1 as stated: after a filter call with at least one argument that is not
\* None, the returned list is exactly the loaded entries that equal the
\* wanted value on every argument that is not None, in loaded order.
C1_ExactOnSupplied ==
    (Filtered /\ query # NoQuery) =>
        /\ outcome.exc = "none"
        /\ outcome.result =
             SelectSeq(_data.members["value"], LAMBDA e : MatchesSupplied(e, query))

\* C1 amended: after a filter call with at least one argument that is neither
\* None nor the empty string, the returned list is exactly the loaded entries
\* that equal the wanted value on every such argument, in loaded order; an
\* argument passed as "" constrains nothing.
C1_ExactOnNonEmpty ==
    (Filtered /\ \E i \in 1..3 : Truthy(Args(query)[i][2])) =>
        /\ outcome.exc = "none"
        /\ \A i \in DOMAIN outcome.result : MatchesNonEmpty(outcome.result[i], query)
        /\ outcome.result =
             SelectSeq(_data.members["value"], LAMBDA e : MatchesNonEmpty(e, query))

\* a query with three non-empty arguments kept one entry and dropped another
C1_Witness ==
    /\ Filtered
    /\ Truthy(query.spatial_dim) /\ Truthy(query.time_dimension_value) /\ Truthy(query.dim1)
    /\ Len(outcome.result) = 1
    /\ Len(_data.members["value"]) = 2

\* C2: a filter call with every argument None returns the loaded list of
\* entries itself: the same entries in the same order.
C2_NoPredicateIdentity ==
    (Filtered /\ query = NoQuery) =>
        /\ outcome.exc = "none"
        /\ outcome.result = _data.members["value"]

\* an unconstrained query returned two different loaded entries
C2_Witness ==
    /\ Filtered
    /\ query = NoQuery
    /\ Len(outcome.result) = 2
    /\ outcome.result[1] # outcome.result[2]

\* C9 as stated: no returned entry lacks an attribute whose argument is not
\* None, and the call does not raise.
C9_MissingExcludedOnSupplied ==
    Filtered =>
        /\ outcome.exc = "none"
        /\ \A i \in DOMAIN outcome.result : \A a \in 1..3 :
              Args(query)[a][2] # None => Args(query)[a][1] \in DOMAIN outcome.result[i]

\* C9 amended: no returned entry lacks an attribute whose argument is neither
\* None nor the empty string, and the call does not raise; an argument passed
\* as "" excludes nothing.
C9_MissingExcludedOnNonEmpty ==
    Filtered =>
        /\ outcome.exc = "none"
        /\ \A i \in DOMAIN outcome.result : \A a \in 1..3 :
              Truthy(Args(query)[a][2]) => Args(query)[a][1] \in DOMAIN outcome.result[i]

\* a loaded entry without SpatialDim was dropped by a query on SpatialDim
\* that kept another entry
C9_Witness ==
    /\ Filtered
    /\ Truthy(query.spatial_dim)
    /\ \E i \in DOMAIN _data.members["value"] :
          "SpatialDim" \notin DOMAIN _data.members["value"][i]
    /\ Len(outcome.result) = 1

\* C8 as stated: a filter call raises ValueError exactly when nothing is
\* loaded or the parsed content has no top-level 'value' list; on a loaded
\* list it raises nothing, and returns the empty list when nothing matches.
C8_EmptyVersusFailure ==
    lastOp = "filter" =>
        /\ outcome.exc = "ValueError" <=> ~HasRecords(_data)
        /\ HasRecords(_data) => outcome.exc = "none"
        /\ (HasRecords(_data) /\ \A i \in DOMAIN _data.members["value"] :
                ~MatchesNonEmpty(_data.members["value"][i], query))
             => outcome.result = <<>>

-----------------------------------------------------------------------------
(* Construction *)

\* C3: a constructor call that finds a valid cache file sends no GET, leaves
\* the file as it is and loads as many entries as the file holds; when the
\* previous manager was loaded from the same bytes it loads the same number
\* of entries as that one.
C3_IdempotentCacheUse ==
    [][ (IsConstruct /\ ValidCache(disk)) =>
          /\ fetchCount' = fetchCount
          /\ response' = NoResponse
          /\ disk' = disk
          /\ status' = "ok"
          /\ RecordCount(_data') = RecordCount(Parse(disk.bytes))
          /\ (status = "ok" /\ loadedBytes = disk.bytes)
               => RecordCount(_data') = RecordCount(_data) ]_vars

\* two constructor calls were served by the same cache file of two entries
C3_Witness ==
    /\ nConstructs = 2
    /\ lastOp = "construct"
    /\ status = "ok"
    /\ fetchCount = 0
    /\ readCount = 2
    /\ RecordCount(_data) = 2

\* C4: a constructor call that finds no cache file sends exactly one GET;
\* when the GET succeeds and the constructor gets as far as loading, the
\* cache file holds exactly the response body, and a manager that was
\* constructed holds what parsing those bytes gives.
C4_FetchThenCache ==
    [][ (IsConstruct /\ ~disk.exists) =>
          /\ fetchCount' = fetchCount + 1
          /\ (response'.kind = "ok" /\ status' # "DownloadFailed") =>
                /\ disk' = File(response'.body)
                /\ dirExists'
          /\ status' = "ok" =>
                /\ response'.kind = "ok"
                /\ loadedBytes' = response'.body
                /\ _data' = Parse(response'.body) ]_vars

\* a manager was constructed from a downloaded body of two entries
C4_Witness ==
    /\ lastOp = "construct"
    /\ status = "ok"
    /\ fetchCount = 1
    /\ response.kind = "ok"
    /\ disk = File(response.body)
    /\ RecordCount(_data) = 2

\* C5: a constructor call that finds no cache file and whose GET fails (no
\* answer, or a non-success status) fails with the download exception after
\* that one GET, constructs no manager and leaves no cache file.
C5_FetchFailure ==
    [][ (IsConstruct /\ ~disk.exists /\ response'.kind \in {"http_error", "net_error"}) =>
          /\ status' = "DownloadFailed"
          /\ fetchCount' = fetchCount + 1
          /\ readCount' = readCount
          /\ _data' = NoData
          /\ disk' = Absent
          /\ dirExists' = dirExists ]_vars

\* a constructor call failed on an HTTP error status
C5_Witness ==
    /\ lastOp = "construct"
    /\ response.kind = "http_error"
    /\ status = "DownloadFailed"
    /\ ~disk.exists

\* C6 as stated: when the GET succeeded and writing the body failed, no file
\* is left at the cache path.
C6_NoPartialFile ==
    (lastOp = "construct" /\ response.kind = "ok" /\ status = "DownloadFailed")
        => ~disk.exists

\* C7: a constructor call that finds a cache file that does not parse fails
\* with the decode error, sends no GET and leaves the file as it is.
C7_CorruptCacheNotRepaired ==
    [][ (IsConstruct /\ disk.exists /\ Parse(disk.bytes) = ParseError) =>
          /\ status' = "JSONDecodeError"
          /\ _data' = NoData
          /\ fetchCount' = fetchCount
          /\ response' = NoResponse
          /\ disk' = disk ]_vars

\* a constructor call failed on an unparseable cache file that is still there
C7_Witness ==
    /\ lastOp = "construct"
    /\ status = "JSONDecodeError"
    /\ response = NoResponse
    /\ disk = File(<<"<html>">>)

\* C10: a filter call changes neither self._data nor the cache file, sends
\* no GET and opens no file, whatever the file holds by then; self._data is
\* still what was parsed from the bytes read at construction.
C10_QueriesLeaveSnapshot ==
    [][ lastOp' = "filter" =>
          /\ _data' = _data
          /\ loadedBytes' = loadedBytes
          /\ _data' = Parse(loadedBytes')
          /\ disk' = disk
          /\ dirExists' = dirExists
          /\ fetchCount' = fetchCount
          /\ readCount' = readCount ]_vars

\* a query returned entries after the cache file had been removed
C10_Witness ==
    /\ Filtered
    /\ ~disk.exists
    /\ Truthy(query.spatial_dim)
    /\ Len(outcome.result) >= 1
    /\ Len(outcome.result) < Len(_data.members["value"])

========
